---- MODULE Spec2Model ----
(***************************************************************************)
(* Jarvis: the audio capture / transcription pipeline of utils/recorder.py *)
(* and the interval scheduler of utils/periodic_tasks.py, as state         *)
(* machines.  The recorder's module globals, the consumer threads and the  *)
(* audio callback are modelled statement group by statement group, so      *)
(* that the interleavings of the controller, the consumer threads and the  *)
(* callbacks are those of the Python threads.                              *)
(***************************************************************************)
EXTENDS Integers, Sequences, FiniteSets, TLC

\* ------------------------------------------------------------------ bounds
\* consumer threads ever spawned (sessions started)
MaxThreads == 2
\* frames the audio callback enqueues over a run
MaxFrames == 2
\* transcript entries ever saved
MaxSaved == 2
\* wall clock, in minutes
MaxTime == 4
\* tokens of a text the transcription engine returns
MaxTextLen == 4
\* scheduler threads ever spawned
MaxSched == 2
\* jobs a scheduler thread runs
MaxJobs == 2
\* minutes of a configured summary interval
MaxInterval == 7
\* tokens of a segment's text
MaxSegLen == 2
\* segments of a list handed to format_segments
MaxSegs == 3

\* --------------------------------------------------------- program constants
\* config.py: SAMPLERATE = 16000 samples per second.  Samples are counted in
\* units of 8000, so that one second is 2 units and a frame of 1 unit is
\* shorter than a second.
SAMPLERATE == 2
\* config.py: CHUNK_DURATION = 10 seconds, scaled to 2 seconds so that two
\* or three frames fill a chunk.
CHUNK_DURATION == 2
\* config.py: SUMMARY_INTERVAL_MIN = 15 and TRANSCRIPT_AGGREGATION_MIN = 15
\* minutes, both scaled to 2 minutes.
SUMMARY_INTERVAL_MIN == 2
TRANSCRIPT_AGGREGATION_MIN == 2
\* periodic_tasks.py:34: the 60 seconds of a minute, scaled to 2.
SECONDS_PER_MINUTE == 2
\* periodic_tasks.py:33: datetime's minute of the hour runs over the 60
\* minutes of an hour, scaled to 6.
MINUTES_PER_HOUR == 6
\* recorder.py:134: queue.Queue() is made with the default maxsize 0, no
\* limit.
QUEUE_MAXSIZE == 0

VARIABLES
    _recording_active,   \* recorder.py:37
    _paused,             \* recorder.py:38
    _stop_signal,        \* recorder.py:39, threading.Event
    _shutdown_complete,  \* recorder.py:40, threading.Event
    _recording_thread,   \* recorder.py:41, 0 is None, else the thread's id
    _audio_stream,       \* recorder.py:42, 0 is None, else the owner's id
    _audio_queue,        \* recorder.py:43, [none, items]
    threads,             \* consumer threads: id -> [pc, buf, stream, open_failed]
    nThreads,            \* threads spawned so far
    ctl,                 \* where the controlling thread is inside a call
    ret,                 \* what the last controller call returned: "True" or "False"
    nFrames,             \* frames put on the hand-off queue so far
    enqueued,            \* history: frames put on the hand-off queue
    dispatched,          \* history: process_audio_chunk calls [t, ids, final]
    hist,                \* history of the controller calls, see Init
    transcripts,         \* the transcript store: entries in save order
    summaries,           \* the summary store: texts handed to save_summary
    now,                 \* wall clock, minutes
    job,                 \* summarize_job's invocation, see IdleJob
    deletions,           \* history: delete_transcripts_in_time_range calls
    _scheduler_thread,   \* periodic_tasks.py:27, 0 is None, else the thread's id
    _stop_event,         \* periodic_tasks.py:28, threading.Event
    second,              \* wall clock, the second of the minute
    sched_threads,       \* scheduler threads, see NoSchedThread
    nSched,              \* scheduler threads spawned so far
    sctl,                \* where the controlling thread is inside stop_scheduler
    sret,                \* the thread the last start_scheduler call returned
    fn_args,             \* a function applied on its own: the call
    fn_result            \* a function applied on its own: what it returned

recVars == <<_recording_active, _paused, _stop_signal, _shutdown_complete,
             _recording_thread, _audio_stream, _audio_queue, threads, nThreads,
             ctl, ret, nFrames, enqueued, dispatched, hist>>
recVarsButThreads ==
    <<_recording_active, _paused, _stop_signal, _shutdown_complete,
      _recording_thread, _audio_stream, _audio_queue, nThreads, ctl, ret,
      nFrames, enqueued, dispatched, hist>>
storeVars == <<transcripts, summaries>>
schedVars == <<now, job, deletions>>
loopVars == <<_scheduler_thread, _stop_event, second, sched_threads, nSched,
              sctl, sret>>
pureVars == <<fn_args, fn_result>>
vars == <<recVars, storeVars, schedVars, loopVars, pureVars>>

\* One thread more than a run of MaxThreads sessions needs, for the longer
\* run of RestartSpec.
ManyThreads == MaxThreads + 1
Threads == 1..ManyThreads
\* The lengths of the frames the callback delivers, in sample units: half a
\* second, a second and two seconds.
FrameLens == {1, 2, 4}

\* ------------------------------------------------------------------- text
\* A text is a sequence of tokens: words, and the white space between them.
Space == " "
Newline == "\n"
IsSpace(tok) == tok \in {Space, Newline}

\* str.lower(), token by token
LowerTok(tok) ==
    CASE tok = "I" -> "i"
      [] tok = "You" -> "you"
      [] tok = "Thank" -> "thank"
      [] tok = "Thanks." -> "thanks."
      [] OTHER -> tok
Lower(s) == [i \in 1..Len(s) |-> LowerTok(s[i])]

RECURSIVE LStrip(_)
LStrip(s) == IF s # <<>> /\ IsSpace(Head(s)) THEN LStrip(Tail(s)) ELSE s
RECURSIVE RStrip(_)
RStrip(s) ==
    IF s # <<>> /\ IsSpace(s[Len(s)]) THEN RStrip(SubSeq(s, 1, Len(s) - 1)) ELSE s
\* str.strip()
Strip(s) == RStrip(LStrip(s))
\* str.split(): the words, as a set (only membership is asked of it)
Words(s) == {s[i] : i \in {j \in 1..Len(s) : ~IsSpace(s[j])}}
\* str.endswith('?')
EndsWithQ(s) == s # <<>> /\ s[Len(s)] \in {"you?", "fine?"}

RECURSIVE Join(_, _)
\* sep.join(list)
Join(sep, list) ==
    IF list = <<>> THEN <<>>
    ELSE IF Len(list) = 1 THEN list[1]
    ELSE list[1] \o <<sep>> \o Join(sep, Tail(list))

\* ------------------------------------------------- segmentation heuristic
\* A detect_speaker_change that takes a pause of exactly one second for a
\* change of speaker.
detect_speaker_change_from_one_second(current_segment, all_segments, index) ==
    IF index = 0 THEN TRUE
    ELSE LET prev == all_segments[index]
             curr == current_segment
             prev_words == Words(Lower(prev.text))
             curr_words == Words(Lower(curr.text))
         IN IF curr.start - prev.end >= 10 THEN TRUE
            ELSE IF EndsWithQ(Strip(prev.text)) /\ ~EndsWithQ(Strip(curr.text)) THEN TRUE
            ELSE IF \/ ("i" \in prev_words /\ "you" \in curr_words)
                    \/ ("you" \in prev_words /\ "i" \in curr_words) THEN TRUE
            ELSE FALSE

\* Segment times are in tenths of a second; index is 0-based as in Python.
detect_speaker_change(current_segment, all_segments, index) ==
    IF index = 0 THEN TRUE
    ELSE LET prev == all_segments[index]      \* all_segments[index-1], 0-based
             curr == current_segment
             prev_words == Words(Lower(prev.text))
             curr_words == Words(Lower(curr.text))
         IN IF curr.start - prev.end > 10 THEN TRUE
            ELSE IF EndsWithQ(Strip(prev.text)) /\ ~EndsWithQ(Strip(curr.text)) THEN TRUE
            ELSE IF \/ ("i" \in prev_words /\ "you" \in curr_words)
                    \/ ("you" \in prev_words /\ "i" \in curr_words) THEN TRUE
            ELSE FALSE

RECURSIVE format_loop_breaks_always(_, _, _, _)
\* A loop of format_segments that starts a new line at every segment.
format_loop_breaks_always(segments, i, formatted_lines, current_text) ==
    IF i >= Len(segments) THEN [lines |-> formatted_lines, cur |-> current_text]
    ELSE LET segment == segments[i + 1]
             text == Strip(segment.text)
         IN IF text = <<>>
            THEN format_loop_breaks_always(segments, i + 1, formatted_lines,
                                           current_text)
            ELSE LET brk == i > 0 /\ current_text # <<>>
                 IN format_loop_breaks_always(segments, i + 1,
                        IF brk THEN Append(formatted_lines, Join(Space, current_text))
                               ELSE formatted_lines,
                        Append(IF brk THEN <<>> ELSE current_text, text))

RECURSIVE format_loop(_, _, _, _)
\* the for loop of format_segments, from 0-based index i on
format_loop(segments, i, formatted_lines, current_text) ==
    IF i >= Len(segments) THEN [lines |-> formatted_lines, cur |-> current_text]
    ELSE LET segment == segments[i + 1]
             text == Strip(segment.text)
         IN IF text = <<>>
            THEN format_loop(segments, i + 1, formatted_lines, current_text)
            ELSE LET new_speaker == detect_speaker_change(segment, segments, i)
                     brk == new_speaker /\ i > 0 /\ current_text # <<>>
                 IN format_loop(segments, i + 1,
                        IF brk THEN Append(formatted_lines, Join(Space, current_text))
                               ELSE formatted_lines,
                        Append(IF brk THEN <<>> ELSE current_text, text))

format_segments(segments) ==
    LET r == format_loop(segments, 0, <<>>, <<>>)
        lines == IF r.cur # <<>> THEN Append(r.lines, Join(Space, r.cur)) ELSE r.lines
    IN Join(Newline, lines)

\* ------------------------------------------------ transcription dispatcher
\* the texts process_audio_chunk refuses to save, recorder.py:268
ARTIFACTS == {<<"thank", Space, "you.">>, <<"thanks.">>, <<>>}

\* What the transcription engine may answer for a buffer: it raises, or it
\* returns a text with or without segments.
Seg(text, start, end) == [text |-> text, start |-> start, end |-> end]
WhisperResults ==
    { [raises |-> TRUE, text |-> <<>>, segments |-> <<>>],
      [raises |-> FALSE, text |-> <<Space, "Thank", Space, "you.">>, segments |-> <<>>],
      [raises |-> FALSE, text |-> <<"fine?", Space, "I", Space, "am">>,
       segments |-> <<Seg(<<"fine?">>, 0, 10), Seg(<<Space, "I", Space, "am">>, 12, 20)>>] }

\* A process_audio_chunk that compares the text with the artifact strings
\* without lowering it.
process_audio_chunk_case_sensitive(result, save_raises) ==
    IF result.raises THEN [raised |-> TRUE, calls |-> <<>>, saved |-> <<>>]
    ELSE LET text == Strip(result.text) IN
         IF Len(text) > 0 /\ text \notin ARTIFACTS
         THEN LET call == IF Len(result.segments) > 0
                          THEN [transcript |-> format_segments(result.segments),
                                has_speakers |-> FALSE]
                          ELSE [transcript |-> text, has_speakers |-> FALSE]
              IN [raised |-> save_raises, calls |-> <<call>>,
                  saved |-> IF save_raises THEN <<>> ELSE <<call>>]
         ELSE [raised |-> FALSE, calls |-> <<>>, saved |-> <<>>]

\* process_audio_chunk, as what it asks of the store: the save_transcript
\* call it makes (none when the text is filtered or the engine raised) and
\* whether an exception leaves the function.
process_audio_chunk(result, save_raises) ==
    IF result.raises THEN [raised |-> TRUE, calls |-> <<>>, saved |-> <<>>]
    ELSE LET text == Strip(result.text) IN
         IF Len(text) > 0 /\ Lower(text) \notin ARTIFACTS
         THEN LET call == IF Len(result.segments) > 0
                          THEN [transcript |-> format_segments(result.segments),
                                has_speakers |-> FALSE]
                          ELSE [transcript |-> text, has_speakers |-> FALSE]
              IN [raised |-> save_raises, calls |-> <<call>>,
                  saved |-> IF save_raises THEN <<>> ELSE <<call>>]
         ELSE [raised |-> FALSE, calls |-> <<>>, saved |-> <<>>]

\* ------------------------------------------------------- transcript store
\* save_transcript's file: the timestamp rounded down to the aggregation
\* interval (minutes of the hour; the model's clock stays within one hour)
FileTime(timestamp) ==
    (timestamp \div TRANSCRIPT_AGGREGATION_MIN) * TRANSCRIPT_AGGREGATION_MIN

\* save_transcript: the entry appended to the interval's file.  ids are the
\* frames of the chunk the text came from (history, not in the file).
save_transcript(store, call, timestamp, ids) ==
    Append(store, [file |-> FileTime(timestamp), timestamp |-> timestamp,
                   transcript |-> call.transcript,
                   has_speakers |-> call.has_speakers, ids |-> ids])

\* load_recent_transcripts: the entries at or after since_time of the files
\* that may hold such entries
load_recent_transcripts(store, since_time) ==
    SelectSeq(store, LAMBDA e :
        /\ e.file >= since_time - TRANSCRIPT_AGGREGATION_MIN
        /\ e.timestamp >= since_time)

\* delete_transcripts_in_time_range: the store without the files whose name
\* lies in [start_time, end_time]
delete_transcripts_in_time_range(store, start_time, end_time) ==
    SelectSeq(store, LAMBDA e : ~(start_time <= e.file /\ e.file <= end_time))

\* ----------------------------------------------------------- summarization
\* A summary is None or a text.  NoneValue stands for Python's None.
NoneValue == <<"None">>
ErrorText == <<"Error generating summary:", Space, "refused">>
\* Python truthiness of a str-or-None
Truthy(v) == v # NoneValue /\ v # <<>>
\* str.startswith("Error")
StartsWithError(v) ==
    v # NoneValue /\ v # <<>> /\ v[1] \in {"Error generating summary:"}

\* What the text-generation engine may do with a request: answer with a
\* response text, or fail the HTTP request.
OllamaReplies ==
    { [failed |-> TRUE, response |-> <<>>],
      [failed |-> FALSE, response |-> <<>>],
      [failed |-> FALSE, response |-> <<"Notes">>] }

\* generate_with_ollama: the response, or the error string of the except branch
generate_with_ollama(reply) ==
    IF reply.failed THEN ErrorText ELSE reply.response

\* summarize_recent_transcripts(): [raised, value, saved], saved being the
\* texts of the save_summary calls that completed.  minute is the wall
\* clock's minute.
summarize_recent_transcripts(store, minute, reply, save_raises) ==
    LET interval == SUMMARY_INTERVAL_MIN
        current_minute == minute % interval
        interval_start == minute - current_minute
        previous_interval_start == interval_start - interval
        loaded == load_recent_transcripts(store, previous_interval_start)
    IN IF loaded = <<>> THEN [raised |-> FALSE, value |-> NoneValue, saved |-> {}]
       ELSE LET summary == generate_with_ollama(reply) IN
            IF save_raises THEN [raised |-> TRUE, value |-> NoneValue, saved |-> {}]
            ELSE [raised |-> FALSE, value |-> summary, saved |-> {summary}]

\* The parameters summarize_recent_transcripts declares: none.
summarize_recent_transcripts_params == {}

\* A Python call: a keyword argument the function does not declare raises
\* TypeError before the body runs.
call_summarize_recent_transcripts(kwargs, store, minute, reply, save_raises) ==
    IF ~(kwargs \subseteq summarize_recent_transcripts_params)
    THEN [raised |-> TRUE, value |-> NoneValue, saved |-> {}]
    ELSE summarize_recent_transcripts(store, minute, reply, save_raises)

\* summarize_job between invocations.  start_time and end_time are the
\* job's time range; raised and summary are what its call of
\* summarize_recent_transcripts did; had_transcripts and reply_ok record
\* what the invocation met: transcripts to load for the interval, an
\* engine answering with a non-empty, non-error text, and a summary store
\* that accepts a write.
IdleJob ==
    [pc |-> "idle", start_time |-> 0, end_time |-> 0, raised |-> FALSE,
     summary |-> NoneValue, had_transcripts |-> FALSE, reply_ok |-> FALSE,
     save_ok |-> FALSE]

\* ---------------------------------------------------------------- recorder
RECURSIVE Size(_)
\* len(audio_buffer): the samples of the frames appended to it
Size(buf) == IF buf = <<>> THEN 0 ELSE Head(buf).n + Size(Tail(buf))
Ids(buf) == [i \in 1..Len(buf) |-> buf[i].id]

NoThread == [pc |-> "none", buf |-> <<>>, stream |-> FALSE, open_failed |-> FALSE]

\* RecordingState of the spec, read off the two flags
RecState ==
    IF ~_recording_active THEN "Stopped"
    ELSE IF _paused THEN "Paused" ELSE "Recording"

\* No function applied on its own.
NoCall == [fn |-> "none"]
NoResult == [done |-> FALSE]

SchedThreads == 1..MaxSched
\* A scheduler thread: where it is in run_scheduler, the locals
\* seconds_to_wait and next_run of wait_until_next_interval, whether its
\* wait is the one before the main loop, what the wait returned, whether
\* the handler of line 105 caught the last job's exception, and the jobs it
\* has run
NoSchedThread ==
    [pc |-> "none", seconds_to_wait |-> 0, next_run |-> 0, first |-> FALSE,
     should_stop |-> FALSE, job_error |-> FALSE, runs |-> 0]

\* The program after import: the module globals of recorder.py and
\* periodic_tasks.py, no thread, empty stores.
ProgramInit ==
    /\ _recording_active = FALSE
    /\ _paused = FALSE
    /\ _stop_signal = FALSE
    /\ _shutdown_complete = FALSE
    /\ _recording_thread = 0
    /\ _audio_stream = 0
    /\ _audio_queue = [none |-> TRUE, items |-> <<>>]
    /\ threads = [t \in Threads |-> NoThread]
    /\ nThreads = 0
    /\ ctl = "idle"
    /\ ret = "none"
    /\ nFrames = 0
    /\ enqueued = {}
    /\ dispatched = <<>>
    \* since_stop: a stop_transcription call has returned True and no
    \* start_transcription call was made since; held: the frames that were on
    \* the hand-off queue when the session's last pause_transcription call
    \* returned True; stopped: the threads whose session a stop_transcription
    \* call has ended by returning True
    /\ hist = [since_stop |-> FALSE, held |-> {}, stopped |-> {}]
    /\ transcripts = <<>>
    /\ summaries = {}
    /\ now = 0
    /\ job = IdleJob
    /\ deletions = <<>>
    /\ _scheduler_thread = 0
    /\ _stop_event = FALSE
    /\ second = 0
    /\ sched_threads = [t \in SchedThreads |-> NoSchedThread]
    /\ nSched = 0
    /\ sctl = "idle"
    /\ sret = 0

Init ==
    /\ ProgramInit
    /\ fn_args = NoCall
    /\ fn_result = NoResult

\* the frames on the hand-off queue
QueuedIds ==
    IF _audio_queue.none THEN {}
    ELSE {_audio_queue.items[i].id : i \in DOMAIN _audio_queue.items}

\* start_transcription, lines 49-60: refuse when active, else reset the
\* flags and start the thread
start_transcription_upto(max_threads) ==
    /\ ctl = "idle"
    /\ IF _recording_active
       THEN /\ ret' = "False"
            /\ hist' = [hist EXCEPT !.since_stop = FALSE]
            /\ UNCHANGED <<_stop_signal, _paused, nThreads, threads,
                           _recording_thread, ctl>>
       ELSE /\ nThreads < max_threads
            /\ _stop_signal' = FALSE
            /\ _paused' = FALSE
            /\ nThreads' = nThreads + 1
            /\ threads' = [threads EXCEPT ![nThreads + 1].pc = "setup"]
            /\ _recording_thread' = nThreads + 1
            /\ ctl' = "start"
            /\ hist' = [hist EXCEPT !.since_stop = FALSE, !.held = {}]
            /\ UNCHANGED ret
    /\ UNCHANGED <<_recording_active, _shutdown_complete, _audio_stream,
                   _audio_queue, nFrames, enqueued, dispatched>>
    /\ UNCHANGED <<storeVars, schedVars, loopVars, pureVars>>

\* start_transcription within the bound on threads
start_transcription == start_transcription_upto(MaxThreads)

\* start_transcription, lines 62-64
start_return ==
    /\ ctl = "start"
    /\ _recording_active' = TRUE
    /\ ctl' = "idle"
    /\ ret' = "True"
    /\ UNCHANGED <<_paused, _stop_signal, _shutdown_complete, _recording_thread,
                   _audio_stream, _audio_queue, threads, nThreads, nFrames,
                   enqueued, dispatched, hist>>
    /\ UNCHANGED <<storeVars, schedVars, loopVars, pureVars>>

\* A pause_transcription that tests only the active flag, not the pause flag.
pause_transcription_unchecked ==
    /\ ctl = "idle"
    /\ IF ~_recording_active
       THEN /\ ret' = "False"
            /\ UNCHANGED <<_paused, hist>>
       ELSE /\ _paused' = TRUE
            /\ ret' = "True"
            /\ hist' = [hist EXCEPT !.held = QueuedIds]
    /\ UNCHANGED <<_recording_active, _stop_signal, _shutdown_complete,
                   _recording_thread, _audio_stream, _audio_queue, threads,
                   nThreads, ctl, nFrames, enqueued, dispatched>>
    /\ UNCHANGED <<storeVars, schedVars, loopVars, pureVars>>

\* pause_transcription, lines 66-80
pause_transcription ==
    /\ ctl = "idle"
    /\ IF ~_recording_active
       THEN /\ ret' = "False"
            /\ UNCHANGED <<_paused, hist>>
       ELSE IF _paused
       THEN /\ ret' = "False"
            /\ UNCHANGED <<_paused, hist>>
       ELSE /\ _paused' = TRUE
            /\ ret' = "True"
            /\ hist' = [hist EXCEPT !.held = QueuedIds]
    /\ UNCHANGED <<_recording_active, _stop_signal, _shutdown_complete,
                   _recording_thread, _audio_stream, _audio_queue, threads,
                   nThreads, ctl, nFrames, enqueued, dispatched>>
    /\ UNCHANGED <<storeVars, schedVars, loopVars, pureVars>>

\* resume_transcription, lines 82-96
resume_transcription ==
    /\ ctl = "idle"
    /\ IF ~_recording_active
       THEN /\ ret' = "False"
            /\ UNCHANGED <<_paused, hist>>
       ELSE IF ~_paused
       THEN /\ ret' = "False"
            /\ UNCHANGED <<_paused, hist>>
       ELSE /\ _paused' = FALSE
            /\ ret' = "True"
            /\ UNCHANGED hist
    /\ UNCHANGED <<_recording_active, _stop_signal, _shutdown_complete,
                   _recording_thread, _audio_stream, _audio_queue, threads,
                   nThreads, ctl, nFrames, enqueued, dispatched>>
    /\ UNCHANGED <<storeVars, schedVars, loopVars, pureVars>>

\* stop_transcription, lines 102-108: refuse when not active, else set the
\* stop signal and clear the pause flag
stop_transcription ==
    /\ ctl = "idle"
    /\ IF ~_recording_active
       THEN /\ ret' = "False"
            /\ UNCHANGED <<_stop_signal, _paused, ctl>>
       ELSE /\ _stop_signal' = TRUE
            /\ _paused' = FALSE
            /\ ctl' = "stop"
            /\ UNCHANGED ret
    /\ UNCHANGED <<_recording_active, _shutdown_complete, _recording_thread,
                   _audio_stream, _audio_queue, threads, nThreads, nFrames,
                   enqueued, dispatched, hist>>
    /\ UNCHANGED <<storeVars, schedVars, loopVars, pureVars>>

\* The calls of the consumer thread that can outlast the 30 seconds of a
\* join: the transcription engine and the text-generation engine.
Blocking == {"dispatch", "final_dispatch", "summarize"}

\* stop_transcription, lines 111-124: join(timeout=30) returns because the
\* thread has ended or because the timeout expired (the thread being inside
\* an engine call), _shutdown_complete.wait(timeout=3) returns likewise, and
\* the state becomes inactive
stop_return ==
    /\ ctl = "stop"
    /\ threads[_recording_thread].pc \in Blocking \cup {"done"}
    /\ _recording_active' = FALSE
    /\ ctl' = "idle"
    /\ ret' = "True"
    /\ hist' = [hist EXCEPT !.since_stop = TRUE,
                            !.stopped = @ \cup {_recording_thread}]
    /\ UNCHANGED <<_paused, _stop_signal, _shutdown_complete, _recording_thread,
                   _audio_stream, _audio_queue, threads, nThreads, nFrames,
                   enqueued, dispatched>>
    /\ UNCHANGED <<storeVars, schedVars, loopVars, pureVars>>

\* ------------------------------------------------------ the consumer thread
\* transcribe_from_mic, lines 131-134: the flags and the queue are reset
consumer_setup(t) ==
    /\ threads[t].pc = "setup"
    /\ _shutdown_complete' = FALSE
    /\ _recording_active' = TRUE
    /\ _paused' = FALSE
    /\ _audio_queue' = [none |-> FALSE, items |-> <<>>]
    /\ threads' = [threads EXCEPT ![t].pc = "open"]
    /\ UNCHANGED <<_stop_signal, _recording_thread, _audio_stream, nThreads, ctl,
                   ret, hist, nFrames, enqueued, dispatched>>
    /\ UNCHANGED <<storeVars, schedVars, loopVars, pureVars>>

\* transcribe_from_mic, lines 157-161: sd.InputStream opens and the with
\* block starts the stream, or the device cannot be opened and the
\* exception reaches the outer except and finally
consumer_open(t, opens) ==
    /\ threads[t].pc = "open"
    /\ IF opens
       THEN /\ _audio_stream' = t
            /\ threads' = [threads EXCEPT ![t] =
                   [pc |-> "loop", buf |-> <<>>, stream |-> TRUE,
                    open_failed |-> FALSE]]
       ELSE /\ threads' = [threads EXCEPT ![t].pc = "cleanup",
                                          ![t].open_failed = TRUE]
            /\ UNCHANGED _audio_stream
    /\ UNCHANGED <<_recording_active, _paused, _stop_signal, _shutdown_complete,
                   _recording_thread, _audio_queue, nThreads, ctl, ret, hist, nFrames,
                   enqueued, dispatched>>
    /\ UNCHANGED <<storeVars, schedVars, loopVars, pureVars>>

\* transcribe_from_mic, line 189: the finally block dispatches the
\* remaining audio if it is long enough
final_chunk_due(audio_buffer) == Size(audio_buffer) > SAMPLERATE * 1

\* transcribe_from_mic, lines 187-197: thread t has left the while loop (on
\* the stop signal, or by an exception) and enters the finally block, which
\* calls process_audio_chunk(audio_buffer, is_final_chunk=True) or skips the
\* buffer and goes on to the final summarization.  The buffer is not read
\* after that, and the model forgets it.
EnterFinally(t) ==
    IF final_chunk_due(threads[t].buf)
    THEN /\ threads' = [threads EXCEPT ![t].pc = "final_dispatch"]
         /\ dispatched' = Append(dispatched,
                [t |-> t, ids |-> Ids(threads[t].buf), final |-> TRUE])
    ELSE /\ threads' = [threads EXCEPT ![t].pc = "summarize", ![t].buf = <<>>]
         /\ UNCHANGED dispatched

\* transcribe_from_mic, lines 164-168: the while test and the paused branch
consumer_loop(t) ==
    /\ threads[t].pc = "loop"
    /\ IF _stop_signal THEN EnterFinally(t)
       ELSE /\ threads' = IF _paused THEN threads
                          ELSE [threads EXCEPT ![t].pc = "get"]
            /\ UNCHANGED dispatched
    /\ UNCHANGED <<_recording_active, _paused, _stop_signal, _shutdown_complete,
                   _recording_thread, _audio_stream, _audio_queue, nThreads, ctl,
                   ret, hist, nFrames, enqueued>>
    /\ UNCHANGED <<storeVars, schedVars, loopVars, pureVars>>

\* A capture loop that dispatches only above the chunk length.
consumer_get_above(t) ==
    /\ threads[t].pc = "get"
    /\ IF _audio_queue.none
       THEN \* AttributeError on None: out of the loop, into the finally
            /\ EnterFinally(t)
            /\ UNCHANGED _audio_queue
       ELSE IF _audio_queue.items = <<>>
       THEN \* queue.Empty after the timeout
            /\ threads' = [threads EXCEPT ![t].pc = "loop"]
            /\ UNCHANGED <<_audio_queue, dispatched>>
       ELSE LET data == Head(_audio_queue.items)
                audio_buffer == Append(threads[t].buf, data)
            IN /\ _audio_queue' = [_audio_queue EXCEPT !.items = Tail(@)]
               /\ IF Size(audio_buffer) > SAMPLERATE * CHUNK_DURATION
                  THEN /\ threads' = [threads EXCEPT ![t].pc = "dispatch",
                                                     ![t].buf = audio_buffer]
                       /\ dispatched' = Append(dispatched,
                              [t |-> t, ids |-> Ids(audio_buffer), final |-> FALSE])
                  ELSE /\ threads' = [threads EXCEPT ![t].pc = "loop",
                                                     ![t].buf = audio_buffer]
                       /\ UNCHANGED dispatched
    /\ UNCHANGED <<_recording_active, _paused, _stop_signal, _shutdown_complete,
                   _recording_thread, _audio_stream, nThreads, ctl, ret, hist, nFrames,
                   enqueued>>
    /\ UNCHANGED <<storeVars, schedVars, loopVars, pureVars>>

\* transcribe_from_mic, lines 172-177: _audio_queue.get(timeout=0.2), the
\* append, the length test and the call of process_audio_chunk
consumer_get(t) ==
    /\ threads[t].pc = "get"
    /\ IF _audio_queue.none
       THEN \* AttributeError on None: out of the loop, into the finally
            /\ EnterFinally(t)
            /\ UNCHANGED _audio_queue
       ELSE IF _audio_queue.items = <<>>
       THEN \* queue.Empty after the timeout
            /\ threads' = [threads EXCEPT ![t].pc = "loop"]
            /\ UNCHANGED <<_audio_queue, dispatched>>
       ELSE LET data == Head(_audio_queue.items)
                audio_buffer == Append(threads[t].buf, data)
            IN /\ _audio_queue' = [_audio_queue EXCEPT !.items = Tail(@)]
               /\ IF Size(audio_buffer) >= SAMPLERATE * CHUNK_DURATION
                  THEN /\ threads' = [threads EXCEPT ![t].pc = "dispatch",
                                                     ![t].buf = audio_buffer]
                       /\ dispatched' = Append(dispatched,
                              [t |-> t, ids |-> Ids(audio_buffer), final |-> FALSE])
                  ELSE /\ threads' = [threads EXCEPT ![t].pc = "loop",
                                                     ![t].buf = audio_buffer]
                       /\ UNCHANGED dispatched
    /\ UNCHANGED <<_recording_active, _paused, _stop_signal, _shutdown_complete,
                   _recording_thread, _audio_stream, nThreads, ctl, ret, hist, nFrames,
                   enqueued>>
    /\ UNCHANGED <<storeVars, schedVars, loopVars, pureVars>>

\* The store after the save_transcript call of one process_audio_chunk
SaveAll(r, ids) ==
    IF r.saved = <<>> THEN transcripts
    ELSE save_transcript(transcripts, r.saved[1], now, ids)

\* transcribe_from_mic, lines 177-178: process_audio_chunk returns and the
\* buffer is reset, or it raises and the exception leaves the while loop
consumer_dispatch(t, result, save_raises) ==
    /\ threads[t].pc = "dispatch"
    /\ LET r == process_audio_chunk(result, save_raises) IN
       /\ transcripts' = SaveAll(r, Ids(threads[t].buf))
       /\ IF r.raised
          THEN EnterFinally(t)
          ELSE /\ threads' = [threads EXCEPT ![t].pc = "loop", ![t].buf = <<>>]
               /\ UNCHANGED dispatched
    /\ UNCHANGED <<_recording_active, _paused, _stop_signal, _shutdown_complete,
                   _recording_thread, _audio_stream, _audio_queue, nThreads, ctl,
                   ret, hist, nFrames, enqueued>>
    /\ UNCHANGED <<summaries, schedVars, loopVars, pureVars>>

\* transcribe_from_mic, lines 192-195: the final process_audio_chunk
\* returns, or raises into the except that logs it
consumer_final_dispatch(t, result, save_raises) ==
    /\ threads[t].pc = "final_dispatch"
    /\ LET r == process_audio_chunk(result, save_raises) IN
       transcripts' = SaveAll(r, Ids(threads[t].buf))
    /\ threads' = [threads EXCEPT ![t].pc = "summarize", ![t].buf = <<>>]
    /\ UNCHANGED <<recVarsButThreads, summaries, schedVars, loopVars, pureVars>>

\* transcribe_from_mic, lines 199-212 and the end of the with block: the
\* final summarize_recent_transcripts() (an exception is logged), then the
\* stream is stopped and closed
consumer_summarize(t, reply, save_raises) ==
    /\ threads[t].pc = "summarize"
    /\ LET r == call_summarize_recent_transcripts({}, transcripts, now, reply,
                                                  save_raises)
       IN summaries' = summaries \cup r.saved
    /\ threads' = [threads EXCEPT ![t].pc = "cleanup", ![t].stream = FALSE]
    /\ UNCHANGED <<recVarsButThreads, transcripts, schedVars, loopVars, pureVars>>

\* transcribe_from_mic, lines 220-230: the stream the global names is
\* stopped and closed if it is active, and the active flag is cleared
consumer_cleanup(t) ==
    /\ threads[t].pc = "cleanup"
    /\ threads' = IF _audio_stream # 0 /\ threads[_audio_stream].stream
                  THEN [threads EXCEPT ![_audio_stream].stream = FALSE,
                                       ![t].pc = "cleanup2"]
                  ELSE [threads EXCEPT ![t].pc = "cleanup2"]
    /\ _recording_active' = FALSE
    /\ UNCHANGED <<_paused, _stop_signal, _shutdown_complete, _recording_thread,
                   _audio_stream, _audio_queue, nThreads, ctl, ret, hist, nFrames,
                   enqueued, dispatched>>
    /\ UNCHANGED <<storeVars, schedVars, loopVars, pureVars>>

\* transcribe_from_mic, lines 234-240
consumer_cleanup2(t) ==
    /\ threads[t].pc = "cleanup2"
    /\ _audio_queue' = [none |-> TRUE, items |-> <<>>]
    /\ _audio_stream' = 0
    /\ _shutdown_complete' = TRUE
    /\ threads' = [threads EXCEPT ![t].pc = "done"]
    /\ UNCHANGED <<_recording_active, _paused, _stop_signal, _recording_thread,
                   nThreads, ctl, ret, hist, nFrames, enqueued, dispatched>>
    /\ UNCHANGED <<storeVars, schedVars, loopVars, pureVars>>

\* A hand-off queue that holds one frame at most.
queue_full_at_one(items) == Len(items) >= 1

\* queue.Queue(), line 134: a queue made without maxsize is never full
queue_full(items) == QUEUE_MAXSIZE > 0 /\ Len(items) >= QUEUE_MAXSIZE

\* audio_callback, lines 139-153, invoked by the open stream of thread t
\* with a frame of n samples, in a run of at most max_frames enqueued
\* frames: the frame is put on the queue, or the callback returns without
\* touching anything.  A frame carries its number
\* id and the number s of the session it was captured in (history).  A put
\* on a full queue would wait for the consumer to take a frame.
audio_callback_upto(t, n, max_frames) ==
    /\ threads[t].stream
    /\ LET indata == [id |-> nFrames + 1, n |-> n, s |-> nThreads] IN
       IF _stop_signal \/ ~_recording_active
       THEN UNCHANGED <<_audio_queue, enqueued, nFrames>>
       ELSE IF ~_paused /\ ~_audio_queue.none
       THEN /\ nFrames < max_frames
            /\ ~queue_full(_audio_queue.items)
            /\ _audio_queue' = [_audio_queue EXCEPT !.items = Append(@, indata)]
            /\ enqueued' = enqueued \cup {indata}
            /\ nFrames' = nFrames + 1
       ELSE UNCHANGED <<_audio_queue, enqueued, nFrames>>
    /\ UNCHANGED <<_recording_active, _paused, _stop_signal, _shutdown_complete,
                   _recording_thread, _audio_stream, threads, nThreads, ctl, ret, hist,
                   dispatched>>
    /\ UNCHANGED <<storeVars, schedVars, loopVars, pureVars>>

\* audio_callback over a run of at most MaxFrames enqueued frames
audio_callback(t, n) == audio_callback_upto(t, n, MaxFrames)

Controller ==
    \/ start_transcription
    \/ start_return
    \/ pause_transcription
    \/ resume_transcription
    \/ stop_transcription
    \/ stop_return

Consumer(t) ==
    \/ consumer_setup(t)
    \/ \E opens \in BOOLEAN : consumer_open(t, opens)
    \/ consumer_loop(t)
    \/ consumer_get(t)
    \/ \E result \in WhisperResults, save_raises \in BOOLEAN :
           consumer_dispatch(t, result, save_raises)
    \/ \E result \in WhisperResults, save_raises \in BOOLEAN :
           consumer_final_dispatch(t, result, save_raises)
    \/ \E reply \in OllamaReplies, save_raises \in BOOLEAN :
           consumer_summarize(t, reply, save_raises)
    \/ consumer_cleanup(t)
    \/ consumer_cleanup2(t)

Next ==
    \/ Controller
    \/ \E t \in Threads : Consumer(t)
    \/ \E t \in Threads, n \in FrameLens : audio_callback(t, n)

Spec == Init /\ [][Next]_vars

\* The recorder with consumer threads that the operating system keeps
\* scheduling: a thread that can take a step eventually takes one, and every
\* engine call it makes returns.
FairSpec == Spec /\ \A t \in Threads : WF_vars(Consumer(t))

\* The recorder over a longer run: one more frame, every frame two seconds
\* long (a full chunk), and no pause_transcription or resume_transcription
\* call.
LongFrames == MaxFrames + 1
LongNext ==
    \/ start_transcription
    \/ start_return
    \/ stop_transcription
    \/ stop_return
    \/ \E t \in Threads : Consumer(t)
    \/ \E t \in Threads : audio_callback_upto(t, 4, LongFrames)

LongSpec == Init /\ [][LongNext]_vars

\* The recorder over one more session: a third consumer thread, a single
\* frame of two seconds, and no pause_transcription or resume_transcription
\* call.
RestartNext ==
    \/ start_transcription_upto(ManyThreads)
    \/ start_return
    \/ stop_transcription
    \/ stop_return
    \/ \E t \in Threads : Consumer(t)
    \/ \E t \in Threads : audio_callback_upto(t, 4, 1)

RestartSpec == Init /\ [][RestartNext]_vars

\* --------------------------------------------------------------- scheduler
\* The wall clock advances by a minute.
Tick ==
    /\ now < MaxTime
    /\ now' = now + 1
    /\ UNCHANGED <<recVars, loopVars, pureVars, storeVars, job, deletions>>

\* The recorder saves the transcript of a chunk (recorder.py:276) while the
\* scheduler runs.
recorder_saves(result) ==
    /\ Len(transcripts) < MaxSaved
    /\ LET r == process_audio_chunk(result, FALSE) IN
       /\ r.saved # <<>>
       /\ transcripts' = SaveAll(r, <<>>)
    /\ UNCHANGED <<recVars, summaries, schedVars, loopVars, pureVars>>

\* A summarize_job that deletes whatever the call did.
job_may_delete_unguarded(r) == TRUE

\* summarize_job, line 64: the test that guards the deletion, on the
\* outcome r of the call of summarize_recent_transcripts
job_may_delete(r) ==
    ~r.raised /\ Truthy(r.value) /\ ~StartsWithError(r.value)

\* summarize_job, lines 53-58, run by run_scheduler at an interval boundary
summarize_job_begin ==
    /\ job.pc = "idle"
    /\ now % SUMMARY_INTERVAL_MIN = 0
    /\ job' = [IdleJob EXCEPT !.pc = "call", !.end_time = now,
                              !.start_time = now - SUMMARY_INTERVAL_MIN]
    /\ UNCHANGED <<recVars, loopVars, pureVars, storeVars, now, deletions>>

\* What load_recent_transcripts would return for the interval at minute
InInterval(store, minute) ==
    load_recent_transcripts(store,
        minute - (minute % SUMMARY_INTERVAL_MIN) - SUMMARY_INTERVAL_MIN)

\* summarize_job, lines 60-81: the call
\* summarize_recent_transcripts(minutes=SUMMARY_INTERVAL_MIN), the test of
\* its result, and the deletion of the time range's transcript files when
\* the test passes; an exception of the call is caught and logged
summarize_job_call(reply, save_raises) ==
    /\ job.pc = "call"
    /\ LET r == call_summarize_recent_transcripts({"minutes"}, transcripts, now,
                                                  reply, save_raises)
       IN /\ summaries' = summaries \cup r.saved
          /\ IF job_may_delete(r)
             THEN /\ transcripts' = delete_transcripts_in_time_range(
                                        transcripts, job.start_time, job.end_time)
                  /\ deletions' = Append(deletions,
                         [start_time |-> job.start_time, end_time |-> job.end_time])
             ELSE UNCHANGED <<transcripts, deletions>>
          /\ job' = [job EXCEPT
                 !.pc = "done",
                 !.raised = r.raised,
                 !.summary = r.value,
                 !.had_transcripts = InInterval(transcripts, now) # <<>>,
                 !.reply_ok = ~reply.failed /\ reply.response # <<>>,
                 !.save_ok = ~save_raises]
    /\ UNCHANGED <<recVars, loopVars, pureVars, now>>

\* summarize_job, line 83: the job returns to run_scheduler
summarize_job_return ==
    /\ job.pc = "done"
    /\ job' = IdleJob
    /\ UNCHANGED <<recVars, loopVars, pureVars, storeVars, now, deletions>>

SchedNext ==
    \/ Tick
    \/ \E result \in WhisperResults : recorder_saves(result)
    \/ summarize_job_begin
    \/ \E reply \in OllamaReplies, save_raises \in BOOLEAN :
           summarize_job_call(reply, save_raises)
    \/ summarize_job_return

SchedSpec == Init /\ [][SchedNext]_vars

\* --------------------------------------------------- the scheduler loop
\* threading.Thread.is_alive of scheduler thread t
is_alive(t) == sched_threads[t].pc \notin {"none", "done"}

\* the wall clock in seconds
Clock == now * SECONDS_PER_MINUTE + second

\* The wall clock can advance by a second within the bound.
ClockCanAdvance == Clock < MaxTime * SECONDS_PER_MINUTE + SECONDS_PER_MINUTE - 1

\* One second passes.
ClockAdvance ==
    /\ ClockCanAdvance
    /\ second' = (second + 1) % SECONDS_PER_MINUTE
    /\ now' = IF second + 1 = SECONDS_PER_MINUTE THEN now + 1 ELSE now

\* get_seconds_until_next_interval, lines 32-34, for an interval of
\* interval_min minutes, at a minute of the hour and a second
seconds_until_next_interval(interval_min, minute, sec) ==
    ((interval_min - (minute % interval_min)) * SECONDS_PER_MINUTE) - sec

\* get_seconds_until_next_interval, lines 30-34, at a minute and second
get_seconds_until_next_interval(minute, sec) ==
    seconds_until_next_interval(SUMMARY_INTERVAL_MIN, minute, sec)

\* A second passes while no scheduler thread is in its wait: none is alive,
\* or the one alive is inside summarize_job.
LoopTick ==
    /\ \A t \in SchedThreads : sched_threads[t].pc \in {"none", "done", "job"}
    /\ ClockAdvance
    /\ UNCHANGED <<recVars, storeVars, pureVars, job, deletions,
                   _scheduler_thread, _stop_event, sched_threads, nSched,
                   sctl, sret>>

\* A start_scheduler that spawns a thread whatever _scheduler_thread is.
start_scheduler_spawns_always(alive) == TRUE

\* start_scheduler, line 110: the test that guards the spawn
start_scheduler_spawns(alive) == _scheduler_thread = 0 \/ ~alive

\* start_scheduler, lines 85-115
start_scheduler ==
    /\ sctl = "idle"
    /\ _stop_event' = FALSE
    /\ IF start_scheduler_spawns(_scheduler_thread # 0
                                 /\ is_alive(_scheduler_thread))
       THEN /\ nSched < MaxSched
            /\ nSched' = nSched + 1
            /\ _scheduler_thread' = nSched + 1
            /\ sched_threads' = [sched_threads EXCEPT ![nSched + 1] =
                   [NoSchedThread EXCEPT !.pc = "wait_begin", !.first = TRUE]]
       ELSE UNCHANGED <<nSched, _scheduler_thread, sched_threads>>
    /\ sret' = _scheduler_thread'
    /\ UNCHANGED <<recVars, storeVars, schedVars, pureVars, second, sctl>>

\* stop_scheduler, lines 117-125 and 132-133: up to the join, or the whole
\* call when no scheduler thread is alive
stop_scheduler ==
    /\ sctl = "idle"
    /\ IF _scheduler_thread # 0 /\ is_alive(_scheduler_thread)
       THEN /\ _stop_event' = TRUE
            /\ sctl' = "stop"
       ELSE UNCHANGED <<_stop_event, sctl>>
    /\ UNCHANGED <<recVars, storeVars, schedVars, pureVars, _scheduler_thread,
                   second, sched_threads, nSched, sret>>

\* stop_scheduler, lines 126-131: join(timeout=2.0) returns when the thread
\* has ended, or by its timeout while the thread is inside summarize_job;
\* a thread in its wait polls the event every second at most and has ended
\* before the timeout
stop_scheduler_return ==
    /\ sctl = "stop"
    /\ sched_threads[_scheduler_thread].pc \in {"done", "job"}
    /\ sctl' = "idle"
    /\ UNCHANGED <<recVars, storeVars, schedVars, pureVars, _scheduler_thread,
                   _stop_event, second, sched_threads, nSched, sret>>

\* wait_until_next_interval, lines 38-40
wait_begin(t) ==
    /\ sched_threads[t].pc = "wait_begin"
    /\ LET seconds_to_wait == get_seconds_until_next_interval(now, second) IN
       sched_threads' = [sched_threads EXCEPT
           ![t].pc = "poll",
           ![t].seconds_to_wait = seconds_to_wait,
           ![t].next_run = Clock + seconds_to_wait]
    /\ UNCHANGED <<recVars, storeVars, schedVars, pureVars, _scheduler_thread,
                   _stop_event, second, nSched, sctl, sret>>

\* A poll that the event does not end.
wait_poll_ended_by_deaf(event) == FALSE

\* wait_until_next_interval, line 42: what _stop_event.wait returns
wait_poll_ended_by(event) == event

\* wait_until_next_interval, lines 42-45: one timed wait on the event, of
\* min(seconds_to_wait, 1.0) seconds, that the event ends at once
wait_poll(t) ==
    /\ sched_threads[t].pc = "poll"
    /\ IF wait_poll_ended_by(_stop_event)
       THEN /\ sched_threads' = [sched_threads EXCEPT ![t].pc = "wait_return"]
            /\ UNCHANGED <<now, second>>
       ELSE /\ ClockAdvance
            /\ LET seconds_to_wait == sched_threads[t].seconds_to_wait - 1 IN
               sched_threads' = [sched_threads EXCEPT
                   ![t].seconds_to_wait = seconds_to_wait,
                   ![t].pc = IF seconds_to_wait <= 0 THEN "wait_return"
                                                     ELSE "poll"]
    /\ UNCHANGED <<recVars, storeVars, pureVars, job, deletions,
                   _scheduler_thread, _stop_event, nSched, sctl, sret>>

\* wait_until_next_interval, line 47, and what run_scheduler does with the
\* value, lines 96-97 and 109-110
wait_return(t) ==
    /\ sched_threads[t].pc = "wait_return"
    /\ sched_threads' = [sched_threads EXCEPT
           ![t].should_stop = _stop_event,
           ![t].first = FALSE,
           ![t].pc = IF _stop_event THEN "exit" ELSE "test"]
    /\ UNCHANGED <<recVars, storeVars, schedVars, pureVars, _scheduler_thread,
                   _stop_event, second, nSched, sctl, sret>>

\* run_scheduler, line 100, and summarize_job, lines 53-58: the loop's test
\* and, when the event is clear, the start of the job
run_scheduler_test(t) ==
    /\ sched_threads[t].pc = "test"
    /\ IF _stop_event
       THEN /\ sched_threads' = [sched_threads EXCEPT ![t].pc = "exit"]
            /\ UNCHANGED job
       ELSE /\ sched_threads[t].runs < MaxJobs
            /\ job.pc = "idle"
            /\ job' = [IdleJob EXCEPT !.pc = "call", !.end_time = now,
                                      !.start_time = now - SUMMARY_INTERVAL_MIN]
            /\ sched_threads' = [sched_threads EXCEPT ![t].pc = "job"]
    /\ UNCHANGED <<recVars, storeVars, pureVars, now, deletions,
                   _scheduler_thread, _stop_event, second, nSched, sctl, sret>>

\* A run_scheduler whose loop calls summarize_job outside any try.
run_scheduler_survives_uncaught(escapes) == ~escapes

\* run_scheduler, lines 101-106: the try around summarize_job keeps the
\* thread in the loop whether or not an exception escapes the job
run_scheduler_survives(escapes) == TRUE

\* summarize_job, line 83, and run_scheduler, lines 103-107: the job ends,
\* by its return or by an exception that escapes it (a print outside its
\* own try), and the loop goes on to its wait
run_scheduler_job_end(t, escapes) ==
    /\ sched_threads[t].pc = "job"
    /\ job.pc = "done"
    /\ job' = IdleJob
    /\ sched_threads' = [sched_threads EXCEPT
           ![t].job_error = escapes,
           ![t].runs = @ + 1,
           ![t].pc = IF run_scheduler_survives(escapes) THEN "wait_begin"
                                                        ELSE "exit"]
    /\ UNCHANGED <<recVars, storeVars, pureVars, now, deletions,
                   _scheduler_thread, _stop_event, second, nSched, sctl, sret>>

\* run_scheduler returns and the thread ends.
run_scheduler_exit(t) ==
    /\ sched_threads[t].pc = "exit"
    /\ sched_threads' = [sched_threads EXCEPT ![t].pc = "done"]
    /\ UNCHANGED <<recVars, storeVars, schedVars, pureVars, _scheduler_thread,
                   _stop_event, second, nSched, sctl, sret>>

\* A step of scheduler thread t.
SchedThread(t) ==
    \/ wait_begin(t)
    \/ wait_poll(t)
    \/ wait_return(t)
    \/ run_scheduler_test(t)
    \/ \E reply \in OllamaReplies, save_raises \in BOOLEAN :
           sched_threads[t].pc = "job" /\ summarize_job_call(reply, save_raises)
    \/ \E escapes \in BOOLEAN : run_scheduler_job_end(t, escapes)
    \/ run_scheduler_exit(t)

LoopNext ==
    \/ LoopTick
    \/ start_scheduler
    \/ stop_scheduler
    \/ stop_scheduler_return
    \/ \E t \in SchedThreads : SchedThread(t)

LoopSpec == Init /\ [][LoopNext]_vars

\* The scheduler threads are scheduled: a thread that can take a step
\* takes one.
FairLoopSpec == LoopSpec /\ \A t \in SchedThreads : WF_vars(SchedThread(t))

\* ------------------------------------------------ functions on their own
RECURSIVE SeqsUpTo(_, _)
\* the sequences over S of length at most n
SeqsUpTo(S, n) ==
    IF n = 0 THEN {<<>>}
    ELSE LET shorter == SeqsUpTo(S, n - 1)
         IN shorter \cup {Append(q, x) : q \in shorter, x \in S}

\* The texts of WHISPER_MODEL.transcribe's result that process_audio_chunk
\* is applied to: white space, the artifact words in both cases, other words.
ChunkToks == {Space, "Thank", "thank", "you.", "Thanks.", "thanks.", "I"}
ChunkResults ==
    {[raises |-> x, text |-> text, segments |-> segments] :
        x \in BOOLEAN, text \in SeqsUpTo(ChunkToks, MaxTextLen),
        segments \in {<<>>, <<Seg(<<Space, "I">>, 0, 10)>>}}

\* process_audio_chunk applied to one engine result
ChunkInit ==
    /\ ProgramInit
    /\ fn_args \in {[fn |-> "process_audio_chunk", result |-> result,
                     save_raises |-> save_raises] :
                        result \in ChunkResults, save_raises \in BOOLEAN}
    /\ fn_result = NoResult

ChunkApply ==
    /\ ~fn_result.done
    /\ fn_result' = [done |-> TRUE,
                     value |-> process_audio_chunk(fn_args.result,
                                                   fn_args.save_raises)]
    /\ UNCHANGED <<recVars, storeVars, schedVars, loopVars, fn_args>>

ChunkSpec == ChunkInit /\ [][ChunkApply]_vars

\* get_seconds_until_next_interval applied at one wall-clock time, for one
\* configured interval
IntervalInit ==
    /\ ProgramInit
    /\ fn_args \in {[fn |-> "get_seconds_until_next_interval",
                     interval_min |-> n, minute |-> m, sec |-> sec] :
                        n \in 1..MaxInterval, m \in 0..(MINUTES_PER_HOUR - 1),
                        sec \in 0..(SECONDS_PER_MINUTE - 1)}
    /\ fn_result = NoResult

IntervalApply ==
    /\ ~fn_result.done
    /\ fn_result' = [done |-> TRUE,
                     value |-> seconds_until_next_interval(
                         fn_args.interval_min, fn_args.minute, fn_args.sec)]
    /\ UNCHANGED <<recVars, storeVars, schedVars, loopVars, fn_args>>

IntervalSpec == IntervalInit /\ [][IntervalApply]_vars

\* The texts of the segments detect_speaker_change is applied to: white
\* space, the two pronouns in both cases, a question, another word.
SegToks == {Space, "I", "you", "You", "fine?", "am"}
SegTexts == SeqsUpTo(SegToks, MaxSegLen)
\* the starts of the second segment, the first one ending at 1.0 s: no
\* pause, a pause of exactly one second, a longer pause
SegStarts == {10, 20, 21}

\* detect_speaker_change applied to the first or the second of two segments
DetectInit ==
    /\ ProgramInit
    /\ fn_args \in {[fn |-> "detect_speaker_change",
                     segments |-> <<Seg(a, 0, 10), Seg(b, start, start + 10)>>,
                     index |-> index] :
                        a \in SegTexts, b \in SegTexts, start \in SegStarts,
                        index \in {0, 1}}
    /\ fn_result = NoResult

DetectApply ==
    /\ ~fn_result.done
    /\ fn_result' = [done |-> TRUE,
                     value |-> detect_speaker_change(
                         fn_args.segments[fn_args.index + 1],
                         fn_args.segments, fn_args.index)]
    /\ UNCHANGED <<recVars, storeVars, schedVars, loopVars, fn_args>>

DetectSpec == DetectInit /\ [][DetectApply]_vars

\* The texts of the segments format_segments is applied to: empty, white
\* space only, and words with and without white space around them.
FormatTexts ==
    {<<>>, <<Space>>, <<"I">>, <<Space, "you">>, <<"fine?">>, <<"am", Space>>}
\* the pause before a segment: none, or more than a second
FormatGaps == {0, 11}

RECURSIVE SegLists(_)
\* the lists of n segments, each a second long
SegLists(n) ==
    IF n = 0 THEN {<<>>}
    ELSE {Append(l, Seg(text,
                        (IF l = <<>> THEN 0 ELSE l[Len(l)].end) + gap,
                        (IF l = <<>> THEN 0 ELSE l[Len(l)].end) + gap + 10)) :
             l \in SegLists(n - 1), text \in FormatTexts, gap \in FormatGaps}

\* format_segments applied to one list of segments
FormatInit ==
    /\ ProgramInit
    /\ fn_args \in {[fn |-> "format_segments", segments |-> l] :
                        l \in UNION {SegLists(n) : n \in 0..MaxSegs}}
    /\ fn_result = NoResult

FormatApply ==
    /\ ~fn_result.done
    /\ fn_result' = [done |-> TRUE, value |-> format_segments(fn_args.segments)]
    /\ UNCHANGED <<recVars, storeVars, schedVars, loopVars, fn_args>>

FormatSpec == FormatInit /\ [][FormatApply]_vars

\* ------------------------------------------------------------------ claims
\* C1: the recording state changes only along the labelled edges
\* Stopped->Recording (a start call in progress), Recording->Paused (pause),
\* Paused->Recording (resume, or the stop call clearing the pause flag on
\* its way to Stopped) and Recording/Paused->Stopped (a stop call in
\* progress); no step of any thread changes it otherwise.
C1_OnlyLabelledEdges ==
    [][RecState' # RecState =>
        \/ RecState = "Stopped" /\ RecState' = "Recording" /\ ctl = "start"
        \/ RecState = "Recording" /\ RecState' = "Paused" /\ pause_transcription
        \/ RecState = "Paused" /\ RecState' = "Recording"
              /\ (resume_transcription \/ stop_transcription)
        \/ RecState \in {"Recording", "Paused"} /\ RecState' = "Stopped"
              /\ ctl = "stop"]_vars

\* the controller variables an invalid call must leave alone
ctlVars == <<_recording_active, _paused, _stop_signal, _recording_thread,
             threads, nThreads, ctl>>

\* C2: a call that is invalid in the current state (start while Recording or
\* Paused, pause while Stopped or Paused, resume while Stopped or Recording,
\* stop while Stopped) returns False and leaves the active flag, the pause
\* flag, the stop signal and the consumer threads unchanged.
C2_InvalidCallsRejected ==
    [][(\/ start_transcription /\ RecState # "Stopped"
        \/ pause_transcription /\ RecState # "Recording"
        \/ resume_transcription /\ RecState # "Paused"
        \/ stop_transcription /\ RecState = "Stopped")
       => ret' = "False" /\ UNCHANGED ctlVars]_vars

\* C2's case: a call made in the Paused state has returned False
C2_Witness ==
    ret = "False" /\ RecState = "Paused" /\ ctl = "idle"

\* C3: summarize_job deletes transcripts only in the step in which its call
\* of summarize_recent_transcripts returned a non-empty text that is not an
\* error string; when the call returned None, an empty text or an error
\* string, or raised, nothing is deleted.
C3_DeleteOnlyAfterSummary ==
    [][(deletions' # deletions \/ Len(transcripts') < Len(transcripts))
       => /\ job.pc = "call" /\ job'.pc = "done"
          /\ ~job'.raised
          /\ Truthy(job'.summary)
          /\ ~StartsWithError(job'.summary)]_vars

\* C3's case: an invocation whose call raised has ended with the interval's
\* transcripts still in the store and nothing deleted
C3_Witness ==
    /\ job.pc = "done" /\ job.raised /\ job.had_transcripts
    /\ transcripts # <<>> /\ deletions = <<>>

\* C4: whatever the engine and the store do during a chunk dispatch, the
\* dispatch ends with the consumer thread back in its capture loop with an
\* empty buffer, and the recording state is what it was.
C4_DispatchErrorKeepsLoop ==
    [][\A t \in Threads :
          threads[t].pc = "dispatch" /\ threads'[t].pc # "dispatch"
          => /\ threads'[t].pc = "loop"
             /\ threads'[t].buf = <<>>
             /\ RecState' = RecState]_vars

\* C5: when the capture loop exits on the stop signal, exactly one final
\* dispatch is attempted if the buffer holds at least SAMPLERATE samples,
\* and none if it holds fewer.
C5_FinalFlushFromOneSecond ==
    [][\A t \in Threads :
          threads[t].pc = "loop" /\ _stop_signal /\ threads'[t].pc # "loop"
          => IF Size(threads[t].buf) >= SAMPLERATE
             THEN /\ threads'[t].pc = "final_dispatch"
                  /\ Len(dispatched') = Len(dispatched) + 1
             ELSE /\ threads'[t].pc # "final_dispatch"
                  /\ dispatched' = dispatched]_vars

\* C6: while the state is Paused, no consumer buffer grows and no chunk is
\* dispatched.
C6_PausedBufferFrozen ==
    [][RecState = "Paused" /\ RecState' = "Paused"
       => /\ \A t \in Threads : Size(threads'[t].buf) <= Size(threads[t].buf)
          /\ dispatched' = dispatched]_vars

\* the threads inside the while loop of transcribe_from_mic
InCaptureLoop == {t \in Threads : threads[t].pc \in {"loop", "get", "dispatch"}}

\* C7: at most one consumer thread is executing the capture loop.
C7_OneConsumerInLoop == Cardinality(InCaptureLoop) <= 1

\* the frames of the i-th dispatch
DispatchedIds(i) == {dispatched[i].ids[k] : k \in DOMAIN dispatched[i].ids}

\* C8: no audio is submitted to the engine twice: two dispatches never
\* share a frame.
C8_DispatchedAtMostOnce ==
    \A i, j \in DOMAIN dispatched :
        i < j => DispatchedIds(i) \cap DispatchedIds(j) = {}

RECURSIVE Samples(_)
\* the samples of a set of frames
Samples(frames) ==
    IF frames = {} THEN 0
    ELSE LET f == CHOOSE f \in frames : TRUE IN f.n + Samples(frames \ {f})

\* the enqueued frames that no dispatch carried
Undispatched ==
    {f \in enqueued : \A i \in DOMAIN dispatched : f.id \notin DispatchedIds(i)}

\* C9: once every consumer thread has ended, the enqueued frames that were
\* never dispatched amount to less than one second.
C9_NoAudioLostOnShutdown ==
    (nThreads >= 1 /\ \A t \in 1..nThreads : threads[t].pc = "done")
    => Samples(Undispatched) < SAMPLERATE

\* C10: a summarize_job that ran with transcripts in the interval, an engine
\* answering a non-empty, non-error text and a store accepting the write has
\* persisted a summary and deleted its time range.
C10_JobPersistsThenDeletes ==
    (job.pc = "done" /\ job.had_transcripts /\ job.reply_ok /\ job.save_ok)
    => /\ \E summary \in summaries : Truthy(summary) /\ ~StartsWithError(summary)
       /\ deletions # <<>>
       /\ deletions[Len(deletions)] =
              [start_time |-> job.start_time, end_time |-> job.end_time]

\* the frame numbered id, and the session it was captured in
Frame(id) == CHOOSE f \in enqueued : f.id = id

\* C11: transcripts are saved in capture order within a session: of two
\* frames captured in the same session, the one in an earlier saved entry
\* was captured first, and the frames of one entry are in callback order.
C11_SavedInCaptureOrder ==
    /\ \A i, j \in DOMAIN transcripts :
          i < j =>
            \A a \in DOMAIN transcripts[i].ids, b \in DOMAIN transcripts[j].ids :
                Frame(transcripts[i].ids[a]).s = Frame(transcripts[j].ids[b]).s
                => transcripts[i].ids[a] < transcripts[j].ids[b]
    /\ \A i \in DOMAIN transcripts :
          \A a, b \in DOMAIN transcripts[i].ids :
              a < b => transcripts[i].ids[a] < transcripts[i].ids[b]

\* C12: when the consumer thread could not open the audio input stream, the
\* start_transcription call that started it does not return True and does
\* not leave the state Recording.
C12_OpenFailureReported ==
    [][(ctl = "start" /\ ctl' = "idle" /\ threads[_recording_thread].open_failed)
       => ret' = "False" /\ RecState' # "Recording"]_vars

\* the positions of a consumer thread that has started and not ended
Alive == {"setup", "open", "loop", "get", "dispatch", "final_dispatch",
          "summarize", "cleanup", "cleanup2"}

\* C13: a consumer thread that is alive when the stop signal is set
\* eventually ends, with _shutdown_complete set, provided the thread keeps
\* running and its engine calls return.
C13_StopSignalEndsThread ==
    \A t \in Threads :
        (_stop_signal /\ threads[t].pc \in Alive)
            ~> (threads[t].pc = "done" /\ _shutdown_complete)

\* C14: a stop_transcription call made in Recording or Paused sets the stop
\* signal and clears the pause flag; when it returns, after the bounded
\* join, it returns True and the state is Stopped, whether or not the
\* consumer thread has ended; and the state is Stopped from then on until
\* the next start_transcription call.
C14_StopEndsStopped ==
    [][/\ (stop_transcription /\ RecState \in {"Recording", "Paused"})
           => _stop_signal' /\ ~_paused' /\ ctl' = "stop"
       /\ (ctl = "stop" /\ ctl' = "idle")
           => ret' = "True" /\ RecState' = "Stopped"
       /\ hist'.since_stop => RecState' = "Stopped"]_vars

\* the artifact strings of the claim
ThankYou == <<"thank", Space, "you.">>
Thanks == <<"thanks.">>

\* C15: on a transcription result, process_audio_chunk calls save_transcript
\* exactly once if the stripped text is non-empty and its lowercase form is
\* neither "thank you." nor "thanks.", and does not call it otherwise.
C15_SavesIffMeaningful ==
    (fn_result.done /\ ~fn_args.result.raises)
    => LET text == Strip(fn_args.result.text)
           meaningful == text # <<>> /\ Lower(text) \notin {ThankYou, Thanks}
       IN Len(fn_result.value.calls) = IF meaningful THEN 1 ELSE 0

\* C15's case: "Thank you." with white space around it was filtered
C15_Witness ==
    /\ fn_result.done /\ ~fn_args.result.raises
    /\ fn_args.result.text = <<Space, "Thank", Space, "you.">>
    /\ fn_result.value.calls = <<>>

\* the chunk length in samples
ChunkLen == SAMPLERATE * CHUNK_DURATION

C17_PausedFramesDiscarded ==
    [][\A t \in Threads : \A k \in DOMAIN threads'[t].buf :
          (k > Len(threads[t].buf) /\ ~_paused)
          => threads'[t].buf[k].id \notin hist.held]_vars

\* a wall-clock second that is a boundary of the summary interval
Aligned(c) == c % (SUMMARY_INTERVAL_MIN * SECONDS_PER_MINUTE) = 0

\* C18: a failing summarize_job does not end the scheduler thread. After
\* every job the thread goes on to wait for the next aligned boundary, a
\* wait that ran its full time is followed by the next job exactly at that
\* boundary, and the thread leaves its loop only when the stop event is set.
C18_FailingJobKeepsLoop ==
    [][\A t \in SchedThreads :
          LET th == sched_threads[t]
              th2 == sched_threads'[t]
          IN /\ (th.pc = "job" /\ th2.pc # "job") => th2.pc = "wait_begin"
             /\ (th.pc = "wait_begin" /\ th2.pc = "poll")
                    => /\ Aligned(th2.next_run)
                       /\ th2.next_run > Clock
                       /\ th2.next_run - Clock
                              <= SUMMARY_INTERVAL_MIN * SECONDS_PER_MINUTE
             /\ (th.pc = "test" /\ th2.pc = "job" /\ th.seconds_to_wait <= 0)
                    => Clock = th.next_run
             /\ (th.pc # "exit" /\ th2.pc = "exit") => _stop_event
             /\ (th.pc # "done" /\ th2.pc = "done") => th.pc = "exit"]_vars

\* The second job of a thread has failed, at the boundary after the one
\* where its first job failed with an exception that escaped it.
C18_Witness ==
    \E t \in SchedThreads :
        /\ sched_threads[t].pc = "job"
        /\ sched_threads[t].runs = 1
        /\ sched_threads[t].job_error
        /\ job.pc = "done"
        /\ job.raised
        /\ Clock = sched_threads[t].next_run
        /\ ~_stop_event

\* where a scheduler thread is while it is inside wait_until_next_interval
WaitPcs == {"wait_begin", "poll", "wait_return"}

\* stop_scheduler has set the stop event and waits for scheduler thread t,
\* which is in its wait or on its way out of it
StopReachedWait(t) ==
    /\ _stop_event
    /\ sctl = "stop"
    /\ _scheduler_thread = t
    /\ sched_threads[t].pc \in WaitPcs \cup {"exit"}

\* C19: when stop_scheduler sets the stop event while the scheduler thread
\* is in wait_until_next_interval, the timed wait in progress ends at once
\* without another second passing, the wait returns True, the thread starts
\* no summarize_job any more, and it terminates.
C19_StopEndsWait ==
    /\ [][\A t \in SchedThreads :
            LET th == sched_threads[t]
                th2 == sched_threads'[t]
            IN /\ (stop_scheduler /\ _scheduler_thread = t /\ th.pc \in WaitPcs)
                      => StopReachedWait(t)'
               /\ StopReachedWait(t) =>
                     /\ StopReachedWait(t)' \/ th2.pc = "done"
                     /\ th2.runs = th.runs
                     /\ UNCHANGED <<now, second, job>>
                     /\ (th.pc = "poll" /\ th2 # th)
                            => /\ th2.pc = "wait_return"
                               /\ th2.seconds_to_wait = th.seconds_to_wait
                     /\ (th.pc = "wait_return" /\ th2 # th)
                            => th2.should_stop /\ th2.pc = "exit"]_vars
    /\ \A t \in SchedThreads :
           StopReachedWait(t) ~> (sched_threads[t].pc = "done")

\* A thread that never ran a job has ended because its first wait, cut
\* short by the stop event, returned True.
C19_Witness ==
    \E t \in SchedThreads :
        /\ sched_threads[t].pc = "done"
        /\ sched_threads[t].runs = 0
        /\ sched_threads[t].should_stop
        /\ sched_threads[t].seconds_to_wait > 0
        /\ sctl = "stop"
        /\ _scheduler_thread = t

\* C20: a start_scheduler call made while the scheduler thread is alive
\* spawns no thread and returns that thread, and at no time is more than
\* one scheduler thread alive.
C20_StartIdempotent ==
    /\ [][(start_scheduler /\ _scheduler_thread # 0
                            /\ is_alive(_scheduler_thread))
            => /\ UNCHANGED <<nSched, sched_threads, _scheduler_thread>>
               /\ sret' = _scheduler_thread]_vars
    /\ [](Cardinality({t \in SchedThreads : is_alive(t)}) <= 1)

\* start_scheduler was called while the only thread ever spawned was alive,
\* after the stop event had ended that thread's wait: the call cleared the
\* event and returned this thread.
C20_Witness ==
    \E t \in SchedThreads :
        /\ nSched = 1
        /\ sched_threads[t].pc = "exit"
        /\ ~_stop_event
        /\ sctl = "idle"
        /\ sret = t
        /\ _scheduler_thread = t

\* C21: for every interval of N minutes and every minute and second,
\* get_seconds_until_next_interval returns d with 0 < d <= 60 * N such that
\* the instant d seconds later has second 0 and a minute of the hour that is
\* a multiple of N.
C21_NextBoundaryAligned ==
    fn_result.done =>
        LET d == fn_result.value
            n == fn_args.interval_min
            then == fn_args.minute * SECONDS_PER_MINUTE + fn_args.sec + d
        IN /\ 0 < d
           /\ d <= SECONDS_PER_MINUTE * n
           /\ then % SECONDS_PER_MINUTE = 0
           /\ ((then \div SECONDS_PER_MINUTE) % MINUTES_PER_HOUR) % n = 0

\* the text ends with a question mark, white space at its end aside
EndsWithQuestion(text) ==
    \E k \in DOMAIN text :
        /\ text[k] \in {"you?", "fine?"}
        /\ \A j \in (k + 1)..Len(text) : IsSpace(text[j])

\* the word occurs in the text, in upper or lower case
HasWord(text, word) == \E k \in DOMAIN text : LowerTok(text[k]) = word

\* C22: detect_speaker_change(segments[i], segments, i) is true exactly
\* when i is 0, or the segment starts more than one second after the end of
\* the one before, or the one before ends with a question mark and this one
\* does not, or "I" occurs in one of the two and "you" in the other.
C22_BoundaryRules ==
    fn_result.done =>
        LET i == fn_args.index
            curr == fn_args.segments[i + 1]
            prev == fn_args.segments[i]
        IN fn_result.value =
              (\/ i = 0
               \/ (i > 0 /\ curr.start - prev.end > 10)
               \/ (i > 0 /\ EndsWithQuestion(prev.text)
                          /\ ~EndsWithQuestion(curr.text))
               \/ (i > 0 /\ HasWord(prev.text, "i") /\ HasWord(curr.text, "you"))
               \/ (i > 0 /\ HasWord(prev.text, "you") /\ HasWord(curr.text, "i")))

\* The rules disagree and the satisfied one wins: no long pause and no
\* question, but "you" before and "I" after.
C22_Witness ==
    /\ fn_result.done
    /\ fn_result.value
    /\ fn_args.index = 1
    /\ fn_args.segments[2].start - fn_args.segments[1].end = 10
    /\ ~EndsWithQuestion(fn_args.segments[1].text)
    /\ HasWord(fn_args.segments[1].text, "you")
    /\ HasWord(fn_args.segments[2].text, "i")

RECURSIVE Composed(_, _, _)
\* The string the claim describes, from 0-based index i on: the non-empty
\* stripped texts in order, each but the first after a line break when
\* detect_speaker_change is true at its index and after a space otherwise.
Composed(segments, i, any_before) ==
    IF i >= Len(segments) THEN <<>>
    ELSE LET text == Strip(segments[i + 1].text) IN
         IF text = <<>> THEN Composed(segments, i + 1, any_before)
         ELSE (IF ~any_before THEN <<>>
               ELSE IF detect_speaker_change(segments[i + 1], segments, i)
                    THEN <<Newline>> ELSE <<Space>>)
              \o text \o Composed(segments, i + 1, TRUE)

C24_FlagRecordsSegmentation ==
    (fn_result.done /\ fn_args.fn = "process_audio_chunk") =>
        \A k \in DOMAIN fn_result.value.saved :
            fn_result.value.saved[k].has_speakers
                = (Len(fn_args.result.segments) > 0)

\* C25: the audio callback never waits on the consumer. Whatever the state
\* and wherever the consumer threads are, a callback of an open stream can
\* run to its end, and all it does is put its frame on the hand-off queue.
C25_CallbackNeverWaits ==
    /\ [](\A t \in Threads, n \in FrameLens :
            (threads[t].stream /\ nFrames < MaxFrames)
                => ENABLED audio_callback(t, n))
    /\ [][\A t \in Threads, n \in FrameLens :
            audio_callback(t, n)
                => /\ UNCHANGED <<_recording_active, _paused, _stop_signal,
                                  _shutdown_complete, threads, storeVars>>
                   /\ \/ UNCHANGED _audio_queue
                      \/ /\ Len(_audio_queue'.items) = Len(_audio_queue.items) + 1
                         /\ SubSeq(_audio_queue'.items, 1, Len(_audio_queue.items))
                                = _audio_queue.items]_vars

\* The callback has put a frame on the queue that no consumer has taken,
\* while the consumer thread is inside the transcription call with the
\* frame before it.
C25_Witness ==
    /\ RecState = "Recording"
    /\ ~_audio_queue.none
    /\ Len(_audio_queue.items) = 1
    /\ \E t \in Threads :
           /\ threads[t].pc = "dispatch"
           /\ \E k \in DOMAIN threads[t].buf :
                  threads[t].buf[k].id < _audio_queue.items[1].id

\* C27: every text stored as a summary is non-empty and is not the error
\* string of generate_with_ollama: nothing is stored when the engine fails
\* or answers with an empty text.
C27_OnlyRealSummariesStored ==
    \A summary \in summaries : Truthy(summary) /\ ~StartsWithError(summary)

\* C28: the pause flag is set only while recording is active; no state is
\* both Stopped and paused.
C28_PausedOnlyWhileActive == _paused => _recording_active

\* C29: the consumer thread of a session that stop_transcription has ended
\* changes nothing of a later session: once start_transcription has started
\* another thread, no step of the earlier thread changes the active flag,
\* the hand-off queue or the stream.
C29_OldCleanupLeavesNewSession ==
    [][\A t \in Threads :
          (/\ t \in hist.stopped
           /\ t # _recording_thread
           /\ threads'[t].pc # threads[t].pc)
          => /\ UNCHANGED <<_recording_active, _audio_queue, _audio_stream>>
             /\ threads'[_recording_thread].stream
                    = threads[_recording_thread].stream]_vars

\* C30: once start_scheduler has returned, and as long as no stop_scheduler
\* call has set the stop event since, the thread it returned is an alive
\* scheduler loop thread.
C30_StartLeavesLoopAlive ==
    (sret # 0 /\ ~_stop_event) => is_alive(sret)
====
